---- MODULE Spec2Model ----
(***************************************************************************)
(* Move-selection engine of src/MyBot.cpp: phase-weighted evaluation, move *)
(* ordering, transposition table, alpha-beta search and the iterative-     *)
(* deepening root driver under a wall-clock budget.                        *)
(*                                                                         *)
(* The board is the Desdemona OthelloBoard collaborator: an 8x8 grid, a    *)
(* move is legal when it is played on an empty cell and brackets at least  *)
(* one line of opposing discs; getValidMoves enumerates row by row.        *)
(* A cell (x, y) is kept at index x*8 + y + 1 of a 64-tuple.               *)
(*                                                                         *)
(* The clock is a nondeterministic input: every call of isTimeUp made      *)
(* while the flag is unset may find the budget expired.  An action of the  *)
(* model is the code that runs from one isTimeUp call up to the next.      *)
(***************************************************************************)
EXTENDS Integers, Sequences, FiniteSets, TLC

INF == 1000000
MAX_DEPTH == 20

\* ------------------------------------------------------------------------
\* Collaborator: board, sides, moves
\* ------------------------------------------------------------------------

opponent(t) == IF t = "BLACK" THEN "RED" ELSE "BLACK"

Cell(x, y) == x * 8 + y + 1

OnBoard(x, y) == x >= 0 /\ x <= 7 /\ y >= 0 /\ y <= 7

Directions ==
  { <<-1, -1>>, <<-1, 0>>, <<-1, 1>>, <<0, -1>>,
    <<0, 1>>, <<1, -1>>, <<1, 0>>, <<1, 1>> }

\* The opposing discs bracketed from (x, y) along d, given that the n cells
\* before (x, y) on the ray already hold opposing discs: the set of their
\* cells when the run is closed by a disc of t, {} otherwise.
RECURSIVE Bracket(_, _, _, _, _, _)
Bracket(b, t, x, y, d, run) ==
  IF ~OnBoard(x, y) THEN {}
  ELSE IF b[Cell(x, y)] = opponent(t)
       THEN Bracket(b, t, x + d[1], y + d[2], d, run \cup {Cell(x, y)})
  ELSE IF b[Cell(x, y)] = t THEN run
  ELSE {}

Flips(b, t, m) ==
  UNION { Bracket(b, t, m[1] + d[1], m[2] + d[2], d, {}) : d \in Directions }

validateMove(b, t, m) ==
  /\ OnBoard(m[1], m[2])
  /\ b[Cell(m[1], m[2])] = "EMPTY"
  /\ Flips(b, t, m) # {}

\* The cells of S in ascending order, as moves: the row-major enumeration.
RECURSIVE RowMajor(_)
RowMajor(S) ==
  IF S = {} THEN << >>
  ELSE LET c == CHOOSE x \in S : \A y \in S : x <= y
       IN  << << (c - 1) \div 8, (c - 1) % 8 >> >> \o RowMajor(S \ {c})

getValidMoves(b, t) ==
  RowMajor({ c \in 1..64 :
               b[c] = "EMPTY" /\ Flips(b, t, << (c - 1) \div 8, (c - 1) % 8 >>) # {} })

\* Defined only for a legal move; an illegal one makes the collaborator
\* throw, which every caller tests with validateMove first.
makeMove(b, t, m) ==
  LET f == Flips(b, t, m) \cup { Cell(m[1], m[2]) }
  IN  SubSeq([ c \in 1..64 |-> IF c \in f THEN t ELSE b[c] ], 1, 64)

Count(b, t) == Cardinality({ c \in 1..64 : b[c] = t })

getBlackCount(b) == Count(b, "BLACK")

getRedCount(b) == Count(b, "RED")

\* ------------------------------------------------------------------------
\* Utilities
\* ------------------------------------------------------------------------

emptySquares(b) == 64 - getBlackCount(b) - getRedCount(b)

Abs(n) == IF n < 0 THEN -n ELSE n

Max(a, b) == IF a >= b THEN a ELSE b

Min(a, b) == IF a <= b THEN a ELSE b

isCorner(m) ==
  (m[1] = 0 /\ m[2] = 0) \/ (m[1] = 0 /\ m[2] = 7) \/
  (m[1] = 7 /\ m[2] = 0) \/ (m[1] = 7 /\ m[2] = 7)

isXSquare(m) ==
  (m[1] = 1 /\ m[2] = 1) \/ (m[1] = 1 /\ m[2] = 6) \/
  (m[1] = 6 /\ m[2] = 1) \/ (m[1] = 6 /\ m[2] = 6)

isCSquare(m) ==
  ((m[1] = 0 \/ m[1] = 7) /\ (m[2] = 1 \/ m[2] = 6)) \/
  ((m[2] = 0 \/ m[2] = 7) /\ (m[1] = 1 \/ m[1] = 6))

isEdge(m) == m[1] = 0 \/ m[1] = 7 \/ m[2] = 0 \/ m[2] = 7

POSITION_WEIGHTS ==
  << << 100, -20, 10,  5,  5, 10, -20, 100 >>,
     << -20, -50, -2, -2, -2, -2, -50, -20 >>,
     <<  10,  -2,  1,  0,  0,  1,  -2,  10 >>,
     <<   5,  -2,  0, -1, -1,  0,  -2,   5 >>,
     <<   5,  -2,  0, -1, -1,  0,  -2,   5 >>,
     <<  10,  -2,  1,  0,  0,  1,  -2,  10 >>,
     << -20, -50, -2, -2, -2, -2, -50, -20 >>,
     << 100, -20, 10,  5,  5, 10, -20, 100 >> >>

Weight(m) == POSITION_WEIGHTS[m[1] + 1][m[2] + 1]

\* The phase weights in hundredths: 0.40 is kept as 40.
getWeights(empty) ==
  IF empty > 48
  THEN [position |-> 40, mobility |-> 35, corner |-> 15, stability |-> 10, parity |-> 0]
  ELSE IF empty > 20
  THEN [position |-> 25, mobility |-> 25, corner |-> 20, stability |-> 20, parity |-> 10]
  ELSE [position |-> 10, mobility |-> 5, corner |-> 15, stability |-> 20, parity |-> 50]

\* ------------------------------------------------------------------------
\* Evaluation
\* ------------------------------------------------------------------------

RECURSIVE SumSeq(_)
SumSeq(s) == IF s = << >> THEN 0 ELSE Head(s) + SumSeq(Tail(s))

Near(m, c) == Abs(m[1] - c[1]) <= 1 /\ Abs(m[2] - c[2]) <= 1

NearCount(moves, c) == Cardinality({ i \in 1..Len(moves) : Near(moves[i], c) })

Corners == << <<0, 0>>, <<0, 7>>, <<7, 0>>, <<7, 7>> >>

\* Lines 197-226 for one corner, given the two move lists that lines
\* 208-209 enumerate (the same lists for every corner: the board is const).
CornerScore(b, perspective, c, myMoves, oppMoves) ==
  IF ~validateMove(b, perspective, c) /\ ~validateMove(b, opponent(perspective), c)
  THEN LET myNear  == NearCount(myMoves, c)
           oppNear == NearCount(oppMoves, c)
       IN  IF myNear < oppNear THEN 100
           ELSE IF oppNear < myNear THEN -100
           ELSE 0
  ELSE 0

CornersOf(b, perspective, myMoves, oppMoves) ==
  SumSeq([ i \in 1..4 |-> CornerScore(b, perspective, Corners[i], myMoves, oppMoves) ])

evaluateCorners(b, perspective) ==
  CornersOf(b, perspective, getValidMoves(b, perspective),
            getValidMoves(b, opponent(perspective)))

evaluatePositional(myMoves, oppMoves) ==
  SumSeq([ i \in 1..Len(myMoves) |-> Weight(myMoves[i]) ])
    - SumSeq([ i \in 1..Len(oppMoves) |-> Weight(oppMoves[i]) ])

SafeEdge(m) == isEdge(m) /\ ~isXSquare(m) /\ ~isCSquare(m)

SafeEdgeCount(moves) == Cardinality({ i \in 1..Len(moves) : SafeEdge(moves[i]) })

StabilityOf(b, perspective, myMoves, oppMoves) ==
  CornersOf(b, perspective, myMoves, oppMoves)
    + (SafeEdgeCount(myMoves) - SafeEdgeCount(oppMoves)) * 5

evaluateStability(b, perspective) ==
  StabilityOf(b, perspective, getValidMoves(b, perspective),
              getValidMoves(b, opponent(perspective)))

\* (int)(double): the conversion drops the fraction, towards zero.  s100 is
\* the weighted sum in hundredths, exact where the code adds doubles; the
\* two agree on the integer part unless the double sum falls short of an
\* integer the exact sum reaches, and both are odd functions of the terms.
FloorInt(s100) == s100 \div 100

ToInt(s100) == IF s100 >= 0 THEN s100 \div 100 ELSE -((-s100) \div 100)

\* Lines 275-278.
Material(b, perspective) ==
  (getBlackCount(b) - getRedCount(b)) * (IF perspective = "BLACK" THEN 1 ELSE -1)

\* Lines 295-301: the weighted combination, in hundredths.  Every helper
\* enumerates the legal moves of the same const board, so the two lists
\* are enumerated once here.
WeightedSum(b, perspective) ==
  LET w          == getWeights(emptySquares(b))
      myMoves    == getValidMoves(b, perspective)
      oppMoves   == getValidMoves(b, opponent(perspective))
      mobility   == Len(myMoves) - Len(oppMoves)
      positional == evaluatePositional(myMoves, oppMoves)
      corners    == CornersOf(b, perspective, myMoves, oppMoves)
      stability  == StabilityOf(b, perspective, myMoves, oppMoves)
  IN  w.position * positional + w.mobility * mobility * 5
        + w.corner * corners + w.stability * stability
        + w.parity * Material(b, perspective)

evaluate(b, perspective) == ToInt(WeightedSum(b, perspective))

\* ------------------------------------------------------------------------
\* Move ordering
\* ------------------------------------------------------------------------

MoveScore(b, t, m) ==
  LET empty == emptySquares(b)
      base  == IF isCorner(m) THEN 100000
               ELSE IF isXSquare(m) /\ empty > 30 THEN -50000
               ELSE IF isCSquare(m) /\ empty > 30 THEN -20000
               ELSE IF isEdge(m) THEN 5000
               ELSE Weight(m) * 100
  IN  IF validateMove(b, t, m)
      THEN base - Len(getValidMoves(makeMove(b, t, m), opponent(t))) * 50
      ELSE base - 100000

\* Insertion of p into a list sorted by descending score, after the
\* entries that do not score lower (the order std::sort leaves on the
\* short lists of a search node).
RECURSIVE InsertDesc(_, _)
InsertDesc(sorted, p) ==
  IF sorted = << >> THEN << p >>
  ELSE IF p[1] > Head(sorted)[1] THEN << p >> \o sorted
  ELSE << Head(sorted) >> \o InsertDesc(Tail(sorted), p)

RECURSIVE SortDesc(_, _)
SortDesc(todo, sorted) ==
  IF todo = << >> THEN sorted
  ELSE SortDesc(Tail(todo), InsertDesc(sorted, Head(todo)))

orderMoves(moves, b, t) ==
  IF Len(moves) <= 1 THEN moves
  ELSE LET scored == [ i \in 1..Len(moves) |-> << MoveScore(b, t, moves[i]), moves[i] >> ]
           sorted == SortDesc(scored, << >>)
       IN  [ i \in 1..Len(sorted) |-> sorted[i][2] ]

\* ------------------------------------------------------------------------
\* Positions handed to the engine
\* ------------------------------------------------------------------------

\* The opening position of the host: black moves first.
StartBoard ==
  SubSeq([ c \in 1..64 |->
             IF c = Cell(3, 3) \/ c = Cell(4, 4) THEN "RED"
             ELSE IF c = Cell(3, 4) \/ c = Cell(4, 3) THEN "BLACK"
             ELSE "EMPTY" ], 1, 64)

\* Three complete games, every move legal when played (a side whose turn is
\* skipped had no legal move).  The engine is asked for a move in positions
\* of these games.
GameA ==
  <<
     <<"BLACK", 5, 4>>, <<"RED", 5, 5>>, <<"BLACK", 2, 3>>, <<"RED", 2, 4>>,
     <<"BLACK", 1, 4>>, <<"RED", 5, 3>>, <<"BLACK", 6, 3>>, <<"RED", 5, 2>>,
     <<"BLACK", 6, 1>>, <<"RED", 7, 3>>, <<"BLACK", 6, 6>>, <<"RED", 5, 1>>,
     <<"BLACK", 6, 4>>, <<"RED", 7, 0>>, <<"BLACK", 5, 0>>, <<"RED", 1, 3>>,
     <<"BLACK", 4, 2>>, <<"RED", 3, 5>>, <<"BLACK", 0, 3>>, <<"RED", 4, 5>>,
     <<"BLACK", 7, 4>>, <<"RED", 3, 2>>, <<"BLACK", 3, 6>>, <<"RED", 4, 1>>,
     <<"BLACK", 7, 2>>, <<"RED", 0, 5>>, <<"BLACK", 3, 1>>, <<"RED", 4, 6>>,
     <<"BLACK", 4, 7>>, <<"RED", 6, 2>>, <<"BLACK", 1, 2>>, <<"RED", 5, 6>>,
     <<"BLACK", 6, 5>>, <<"RED", 3, 0>>, <<"BLACK", 1, 5>>, <<"RED", 7, 6>>,
     <<"BLACK", 2, 5>>, <<"RED", 3, 7>>, <<"BLACK", 2, 6>>, <<"RED", 6, 0>>,
     <<"BLACK", 2, 2>>, <<"RED", 7, 5>>, <<"BLACK", 2, 0>>, <<"RED", 2, 7>>,
     <<"BLACK", 4, 0>>, <<"RED", 0, 4>>, <<"BLACK", 7, 7>>, <<"RED", 6, 7>>,
     <<"BLACK", 0, 6>>, <<"RED", 0, 2>>, <<"BLACK", 1, 6>>, <<"RED", 5, 7>>,
     <<"BLACK", 7, 1>>, <<"RED", 0, 7>>, <<"BLACK", 1, 7>>, <<"RED", 1, 1>>,
     <<"BLACK", 0, 0>>, <<"RED", 2, 1>>, <<"BLACK", 0, 1>>, <<"RED", 1, 0>> >>

GameB ==
  <<
     <<"BLACK", 5, 4>>, <<"RED", 5, 3>>, <<"BLACK", 6, 2>>, <<"RED", 5, 5>>,
     <<"BLACK", 3, 2>>, <<"RED", 7, 1>>, <<"BLACK", 6, 6>>, <<"RED", 5, 6>>,
     <<"BLACK", 6, 5>>, <<"RED", 7, 5>>, <<"BLACK", 5, 7>>, <<"RED", 3, 5>>,
     <<"BLACK", 6, 3>>, <<"RED", 2, 1>>, <<"BLACK", 5, 2>>, <<"RED", 6, 7>>,
     <<"BLACK", 6, 1>>, <<"RED", 4, 5>>, <<"BLACK", 7, 7>>, <<"RED", 4, 2>>,
     <<"BLACK", 3, 6>>, <<"RED", 5, 1>>, <<"BLACK", 5, 0>>, <<"RED", 2, 3>>,
     <<"BLACK", 7, 6>>, <<"RED", 4, 6>>, <<"BLACK", 7, 4>>, <<"RED", 2, 7>>,
     <<"BLACK", 2, 2>>, <<"RED", 7, 2>>, <<"BLACK", 6, 4>>, <<"RED", 4, 1>>,
     <<"BLACK", 4, 0>>, <<"RED", 2, 5>>, <<"BLACK", 4, 7>>, <<"RED", 3, 1>>,
     <<"BLACK", 1, 0>>, <<"RED", 1, 3>>, <<"BLACK", 2, 4>>, <<"RED", 1, 1>>,
     <<"BLACK", 1, 4>>, <<"RED", 1, 5>>, <<"BLACK", 2, 0>>, <<"RED", 1, 2>>,
     <<"BLACK", 1, 6>>, <<"RED", 3, 0>>, <<"BLACK", 7, 0>>, <<"RED", 0, 3>>,
     <<"BLACK", 0, 4>>, <<"RED", 1, 7>>, <<"BLACK", 0, 7>>, <<"RED", 0, 0>>,
     <<"BLACK", 7, 3>>, <<"RED", 2, 6>>, <<"BLACK", 3, 7>>, <<"RED", 0, 5>>,
     <<"BLACK", 0, 2>>, <<"RED", 0, 1>>, <<"BLACK", 6, 0>>, <<"BLACK", 0, 6>> >>

GameC ==
  <<
     <<"BLACK", 5, 4>>, <<"RED", 5, 3>>, <<"BLACK", 2, 2>>, <<"RED", 3, 5>>,
     <<"BLACK", 3, 6>>, <<"RED", 2, 6>>, <<"BLACK", 5, 5>>, <<"RED", 6, 5>>,
     <<"BLACK", 7, 5>>, <<"RED", 5, 6>>, <<"BLACK", 1, 6>>, <<"RED", 2, 4>>,
     <<"BLACK", 1, 5>>, <<"RED", 3, 7>>, <<"BLACK", 6, 6>>, <<"RED", 1, 7>>,
     <<"BLACK", 6, 4>>, <<"RED", 7, 6>>, <<"BLACK", 4, 2>>, <<"RED", 1, 4>>,
     <<"BLACK", 5, 7>>, <<"RED", 7, 4>>, <<"BLACK", 7, 3>>, <<"RED", 6, 2>>,
     <<"BLACK", 0, 4>>, <<"RED", 1, 3>>, <<"BLACK", 5, 1>>, <<"RED", 3, 2>>,
     <<"BLACK", 0, 6>>, <<"RED", 6, 7>>, <<"BLACK", 3, 1>>, <<"RED", 4, 6>>,
     <<"BLACK", 6, 3>>, <<"RED", 5, 2>>, <<"BLACK", 1, 2>>, <<"RED", 4, 5>>,
     <<"BLACK", 4, 7>>, <<"RED", 6, 1>>, <<"BLACK", 2, 5>>, <<"RED", 0, 2>>,
     <<"BLACK", 7, 0>>, <<"RED", 2, 0>>, <<"BLACK", 2, 7>>, <<"RED", 0, 5>>,
     <<"BLACK", 4, 0>>, <<"RED", 0, 3>>, <<"BLACK", 7, 1>>, <<"RED", 7, 2>>,
     <<"BLACK", 1, 1>>, <<"RED", 0, 7>>, <<"BLACK", 2, 1>>, <<"RED", 5, 0>>,
     <<"BLACK", 4, 1>>, <<"RED", 6, 0>>, <<"BLACK", 7, 7>>, <<"RED", 3, 0>>,
     <<"BLACK", 2, 3>>, <<"RED", 0, 1>>, <<"BLACK", 1, 0>> >>

Games == << "A", "B", "C" >>

Record(g) == IF g = "A" THEN GameA ELSE IF g = "B" THEN GameB ELSE GameC

\* How many of the recorded games the host plays.
NumGames == 2

\* The positions of the calls, each the board after `ply` moves of a game
\* with the side whose turn it is: five, four and three empty cells with a
\* choice of moves; one legal move; no legal move (a pass); four empty
\* cells in a game that ends before the board is full; three empty cells.
BoardA55 ==
  <<
     "EMPTY", "EMPTY", "RED"  , "RED"  , "RED"  , "RED"  , "RED"  , "RED",
     "EMPTY", "EMPTY", "BLACK", "RED"  , "RED"  , "BLACK", "BLACK", "BLACK",
     "BLACK", "EMPTY", "BLACK", "BLACK", "RED"  , "RED"  , "BLACK", "BLACK",
     "BLACK", "BLACK", "BLACK", "BLACK", "RED"  , "RED"  , "BLACK", "BLACK",
     "BLACK", "BLACK", "BLACK", "BLACK", "BLACK", "RED"  , "RED"  , "BLACK",
     "BLACK", "BLACK", "BLACK", "RED"  , "RED"  , "BLACK", "RED"  , "BLACK",
     "RED"  , "BLACK", "BLACK", "BLACK", "RED"  , "RED"  , "RED"  , "BLACK",
     "RED"  , "BLACK", "BLACK", "BLACK", "BLACK", "BLACK", "BLACK", "BLACK" >>

BoardA56 ==
  <<
     "EMPTY", "EMPTY", "RED"  , "RED"  , "RED"  , "RED"  , "RED"  , "RED",
     "EMPTY", "RED"  , "RED"  , "RED"  , "RED"  , "BLACK", "BLACK", "BLACK",
     "BLACK", "EMPTY", "RED"  , "BLACK", "RED"  , "RED"  , "BLACK", "BLACK",
     "BLACK", "BLACK", "BLACK", "RED"  , "RED"  , "RED"  , "BLACK", "BLACK",
     "BLACK", "BLACK", "BLACK", "BLACK", "RED"  , "RED"  , "RED"  , "BLACK",
     "BLACK", "BLACK", "BLACK", "RED"  , "RED"  , "RED"  , "RED"  , "BLACK",
     "RED"  , "BLACK", "BLACK", "BLACK", "RED"  , "RED"  , "RED"  , "BLACK",
     "RED"  , "BLACK", "BLACK", "BLACK", "BLACK", "BLACK", "BLACK", "BLACK" >>

BoardA57 ==
  <<
     "BLACK", "EMPTY", "RED"  , "RED"  , "RED"  , "RED"  , "RED"  , "RED",
     "EMPTY", "BLACK", "RED"  , "RED"  , "RED"  , "BLACK", "BLACK", "BLACK",
     "BLACK", "EMPTY", "BLACK", "BLACK", "RED"  , "RED"  , "BLACK", "BLACK",
     "BLACK", "BLACK", "BLACK", "BLACK", "RED"  , "RED"  , "BLACK", "BLACK",
     "BLACK", "BLACK", "BLACK", "BLACK", "BLACK", "RED"  , "RED"  , "BLACK",
     "BLACK", "BLACK", "BLACK", "RED"  , "RED"  , "BLACK", "RED"  , "BLACK",
     "RED"  , "BLACK", "BLACK", "BLACK", "RED"  , "RED"  , "BLACK", "BLACK",
     "RED"  , "BLACK", "BLACK", "BLACK", "BLACK", "BLACK", "BLACK", "BLACK" >>

BoardA59 ==
  <<
     "BLACK", "BLACK", "RED"  , "RED"  , "RED"  , "RED"  , "RED"  , "RED",
     "EMPTY", "BLACK", "BLACK", "RED"  , "RED"  , "BLACK", "BLACK", "BLACK",
     "BLACK", "RED"  , "RED"  , "BLACK", "RED"  , "RED"  , "BLACK", "BLACK",
     "BLACK", "BLACK", "RED"  , "BLACK", "BLACK", "RED"  , "BLACK", "BLACK",
     "BLACK", "BLACK", "BLACK", "RED"  , "BLACK", "BLACK", "RED"  , "BLACK",
     "BLACK", "BLACK", "BLACK", "RED"  , "RED"  , "BLACK", "BLACK", "BLACK",
     "RED"  , "BLACK", "BLACK", "BLACK", "RED"  , "RED"  , "BLACK", "BLACK",
     "RED"  , "BLACK", "BLACK", "BLACK", "BLACK", "BLACK", "BLACK", "BLACK" >>

BoardB59 ==
  <<
     "RED"  , "RED"  , "RED"  , "RED"  , "RED"  , "RED"  , "EMPTY", "BLACK",
     "RED"  , "RED"  , "RED"  , "BLACK", "RED"  , "RED"  , "BLACK", "BLACK",
     "RED"  , "RED"  , "BLACK", "RED"  , "BLACK", "RED"  , "BLACK", "BLACK",
     "RED"  , "BLACK", "BLACK", "RED"  , "BLACK", "BLACK", "BLACK", "BLACK",
     "BLACK", "RED"  , "BLACK", "BLACK", "BLACK", "BLACK", "BLACK", "BLACK",
     "BLACK", "BLACK", "BLACK", "BLACK", "BLACK", "BLACK", "BLACK", "BLACK",
     "BLACK", "BLACK", "BLACK", "BLACK", "BLACK", "BLACK", "BLACK", "BLACK",
     "BLACK", "BLACK", "BLACK", "BLACK", "BLACK", "BLACK", "BLACK", "BLACK" >>

BoardB56 ==
  <<
     "RED"  , "EMPTY", "EMPTY", "RED"  , "RED"  , "RED"  , "EMPTY", "BLACK",
     "RED"  , "RED"  , "RED"  , "RED"  , "RED"  , "RED"  , "BLACK", "BLACK",
     "RED"  , "RED"  , "RED"  , "RED"  , "RED"  , "RED"  , "BLACK", "BLACK",
     "RED"  , "BLACK", "RED"  , "RED"  , "BLACK", "BLACK", "BLACK", "BLACK",
     "BLACK", "RED"  , "RED"  , "BLACK", "BLACK", "BLACK", "BLACK", "BLACK",
     "BLACK", "RED"  , "BLACK", "BLACK", "BLACK", "BLACK", "BLACK", "BLACK",
     "EMPTY", "BLACK", "BLACK", "BLACK", "BLACK", "BLACK", "BLACK", "BLACK",
     "BLACK", "BLACK", "BLACK", "BLACK", "BLACK", "BLACK", "BLACK", "BLACK" >>

BoardB57 ==
  <<
     "RED"  , "EMPTY", "BLACK", "RED"  , "RED"  , "RED"  , "EMPTY", "BLACK",
     "RED"  , "RED"  , "BLACK", "BLACK", "RED"  , "RED"  , "BLACK", "BLACK",
     "RED"  , "RED"  , "BLACK", "RED"  , "BLACK", "RED"  , "BLACK", "BLACK",
     "RED"  , "BLACK", "BLACK", "RED"  , "BLACK", "BLACK", "BLACK", "BLACK",
     "BLACK", "RED"  , "BLACK", "BLACK", "BLACK", "BLACK", "BLACK", "BLACK",
     "BLACK", "RED"  , "BLACK", "BLACK", "BLACK", "BLACK", "BLACK", "BLACK",
     "EMPTY", "BLACK", "BLACK", "BLACK", "BLACK", "BLACK", "BLACK", "BLACK",
     "BLACK", "BLACK", "BLACK", "BLACK", "BLACK", "BLACK", "BLACK", "BLACK" >>

Positions ==
  << [board |-> BoardA55, turn |-> "RED", game |-> "A", ply |-> 55],
     [board |-> BoardA56, turn |-> "BLACK", game |-> "A", ply |-> 56],
     [board |-> BoardA57, turn |-> "RED", game |-> "A", ply |-> 57],
     [board |-> BoardA59, turn |-> "RED", game |-> "A", ply |-> 59],
     [board |-> BoardB59, turn |-> "RED", game |-> "B", ply |-> 59],
     [board |-> BoardB56, turn |-> "BLACK", game |-> "B", ply |-> 56],
     [board |-> BoardB57, turn |-> "RED", game |-> "B", ply |-> 57] >>

\* How many of the positions above the engine is called on.
NumPositions == 6

\* ------------------------------------------------------------------------
\* Position hash and transposition table
\* ------------------------------------------------------------------------

\* ZobristHash::hash XORs one table constant per piece count and one per
\* legal move of each side.  The XOR of 64-bit constants is kept as the set
\* of table slots <<index, side>> taken an odd number of times: a slot the
\* count and a move both select cancels, as it does under XOR.
SymDiff(A, B) == (A \ B) \cup (B \ A)

MoveSlots(moves, j) == { << (moves[i][1] * 8 + moves[i][2]) % 64, j >> : i \in 1..Len(moves) }

hash(b) ==
  SymDiff({ << getBlackCount(b) % 64, 0 >> }, MoveSlots(getValidMoves(b, "BLACK"), 0))
    \cup
  SymDiff({ << getRedCount(b) % 64, 1 >> }, MoveSlots(getValidMoves(b, "RED"), 1))

TTEntry(h, d, s, m) == [hash |-> h, depth |-> d, score |-> s, bestMove |-> m]

\* The table is a map from the hashes stored so far to their entries.
EmptyTable == << >>

Store(table, h, e) == [ k \in DOMAIN table \cup {h} |-> IF k = h THEN e ELSE table[k] ]

\* list::remove(m) followed by push_front(m).
RECURSIVE Without(_, _)
Without(moves, m) ==
  IF moves = << >> THEN << >>
  ELSE IF Head(moves) = m THEN Without(Tail(moves), m)
  ELSE << Head(moves) >> \o Without(Tail(moves), m)

PushFront(moves, m) == << m >> \o Without(moves, m)

\* Lines 396-405: a stored entry of sufficient depth puts its move first.
Lookup(table, h, depth, myMoves) ==
  IF h \in DOMAIN table /\ table[h].hash = h /\ table[h].depth >= depth
  THEN PushFront(myMoves, table[h].bestMove)
  ELSE myMoves

\* ------------------------------------------------------------------------
\* State
\* ------------------------------------------------------------------------

VARIABLES
  board,               \* playMove's position argument
  turn,                \* playMove's side argument
  transpositionTable,  \* the static table
  timeoutFlag,         \* the static flag
  rpc,                 \* where playMove / rootSearch stands
  root,                \* the locals of rootSearch
  stack,               \* the alphaBeta frames, the innermost last
  ret,                 \* the move the last playMove call returned
  searched,            \* alphaBeta was called during this playMove call
  stale,               \* what this playMove call found on entry
  returns,             \* the alphaBeta calls that returned in the last step
  lateEvals,           \* static evaluations made after the flag was set
  gboard,              \* the host's board
  gturn,               \* the side to move in the host's game
  ggame,               \* the recorded game the host plays
  gply,                \* the moves of the record played so far
  gleft,               \* the host has left the record
  gscore               \* evaluate of gboard, for each perspective

vars ==
  << board, turn, transpositionTable, timeoutFlag, rpc, root, stack, ret,
     searched, stale, returns, lateEvals,
     gboard, gturn, ggame, gply, gleft, gscore >>

engineVars ==
  << board, turn, transpositionTable, timeoutFlag, rpc, root, stack, ret,
     searched, stale, returns, lateEvals >>

gameVars == << gboard, gturn, ggame, gply, gleft, gscore >>

\* ------------------------------------------------------------------------
\* Time control
\* ------------------------------------------------------------------------

\* The outcomes of one isTimeUp call: TRUE once the flag is set; otherwise
\* the clock decides, and the outcome is stored in the flag.
isTimeUp == IF timeoutFlag THEN {TRUE} ELSE {FALSE, TRUE}

\* ------------------------------------------------------------------------
\* alphaBeta: frames and returns
\* ------------------------------------------------------------------------

\* A call of alphaBeta about to run its first line.  window keeps the
\* bounds the call was made with (alpha and beta are updated in the loop);
\* explored counts the children whose value the loop has taken.
NewFrame(b, t, d, a, be, p) ==
  [ board |-> b, currTurn |-> t, depth |-> d, alpha |-> a, beta |-> be,
    perspective |-> p, pc |-> "entry", myMoves |-> << >>, idx |-> 0,
    bestVal |-> 0, bestMove |-> << 0, 0 >>, hash |-> {}, maximizing |-> FALSE,
    explored |-> 0, window |-> << a, be >> ]

Top == stack[Len(stack)]

Callers == SubSeq(stack, 1, Len(stack) - 1)

\* Lines 442-445: the moves of the list the loop has come to and could not
\* apply (a table move put first by a colliding entry).
Skipped(f) ==
  Cardinality({ k \in 1..Len(f.myMoves) :
                  k < f.idx /\ ~validateMove(f.board, f.currTurn, f.myMoves[k]) })

\* What a returning call is remembered by.
Returned(f, v, how) ==
  [ board |-> f.board, currTurn |-> f.currTurn, depth |-> f.depth,
    perspective |-> f.perspective, window |-> f.window, val |-> v,
    explored |-> f.explored, skipped |-> Skipped(f), how |-> how ]

NeverOver(myMoves, oppMoves) == FALSE

GameOver(myMoves, oppMoves) == myMoves = << >> /\ oppMoves = << >>

AlwaysMaximizing(currTurn, perspective) == TRUE

Maximizing(currTurn, perspective) == currTurn = perspective

Cutoff(alpha, beta) == beta <= alpha

\* Lines 424-441: the loop body after the recursive call returned val for
\* the move at f.idx, up to the next loop test.
TakeChild(f, val) ==
  LET m      == f.myMoves[f.idx]
      better == IF f.maximizing THEN val > f.bestVal ELSE val < f.bestVal
      a      == IF f.maximizing THEN Max(f.alpha, val) ELSE f.alpha
      be     == IF f.maximizing THEN f.beta ELSE Min(f.beta, val)
      last   == Cutoff(a, be) \/ f.idx + 1 > Len(f.myMoves)
  IN  [ f EXCEPT !.bestVal  = IF better THEN val ELSE @,
                 !.bestMove = IF better THEN m ELSE @,
                 !.alpha    = a,
                 !.beta     = be,
                 !.explored = @ + 1,
                 !.idx      = IF Cutoff(a, be) THEN @ ELSE @ + 1,
                 !.pc       = IF last THEN "store" ELSE "loop" ]

\* Lines 492-495 and the loop test of line 482: rootSearch takes the score
\* of the root move at r.idx.
TakeScore(r, score) ==
  [ r EXCEPT !.iterScore = IF score > r.iterScore THEN score ELSE @,
             !.iterBest  = IF score > r.iterScore THEN r.moves[r.idx] ELSE @,
             !.scored    = @ + 1,
             !.idx       = @ + 1 ]

\* The value val handed to the callers cs of a returning call: a frame
\* that passed the turn (line 393) returns it in turn, a frame in its loop
\* takes it.  The result names the frames left, the calls that returned on
\* the way, and whether the value reached rootSearch.
RECURSIVE Deliver(_, _, _)
Deliver(cs, val, rets) ==
  IF cs = << >> THEN [stack |-> << >>, rets |-> rets, toRoot |-> TRUE]
  ELSE LET f == cs[Len(cs)]
           below == SubSeq(cs, 1, Len(cs) - 1)
       IN  IF f.pc = "pass"
           THEN Deliver(below, val,
                        Append(rets, Returned([f EXCEPT !.explored = 1], val, "pass")))
           ELSE [stack |-> Append(below, TakeChild(f, val)), rets |-> rets,
                 toRoot |-> FALSE]

\* The innermost call returns val.
Return(val, how) ==
  LET d == Deliver(Callers, val, << Returned(Top, val, how) >>)
  IN  /\ stack' = d.stack
      /\ returns' = d.rets
      /\ IF d.toRoot
         THEN LET r == TakeScore(root, val)
              IN  /\ root' = r
                  /\ rpc' = IF r.idx > Len(r.moves) THEN "commit" ELSE "move"
         ELSE UNCHANGED << root, rpc >>

\* Lines 396-412: the node is expanded.
Expand(f, myMoves) ==
  LET h       == hash(f.board)
      ordered == orderMoves(Lookup(transpositionTable, h, f.depth, myMoves),
                            f.board, f.currTurn)
      maxi    == Maximizing(f.currTurn, f.perspective)
  IN  [ f EXCEPT !.pc = "loop", !.hash = h, !.myMoves = ordered, !.idx = 1,
                 !.maximizing = maxi,
                 !.bestVal = IF maxi THEN -INF ELSE INF,
                 !.bestMove = Head(ordered) ]

\* Lines 375-412: from the call to the first loop test.
ABEntry ==
  /\ rpc = "search"
  /\ Top.pc = "entry"
  /\ \E up \in isTimeUp :
       LET f        == Top
           myMoves  == getValidMoves(f.board, f.currTurn)
           oppMoves == getValidMoves(f.board, opponent(f.currTurn))
       IN  /\ timeoutFlag' = up
           /\ lateEvals' = IF up THEN lateEvals + 1 ELSE lateEvals
           /\ IF up
              THEN Return(evaluate(f.board, f.perspective), "static")
              ELSE IF f.depth = 0 \/ GameOver(myMoves, oppMoves)
              THEN Return(evaluate(f.board, f.perspective), "static")
              ELSE IF myMoves = << >>
              THEN /\ stack' = Callers \o
                        << [f EXCEPT !.pc = "pass"],
                           NewFrame(f.board, opponent(f.currTurn), f.depth,
                                    f.alpha, f.beta, f.perspective) >>
                   /\ returns' = << >>
                   /\ UNCHANGED << root, rpc >>
              ELSE /\ stack' = Append(Callers, Expand(f, myMoves))
                   /\ returns' = << >>
                   /\ UNCHANGED << root, rpc >>
  /\ UNCHANGED << board, turn, transpositionTable, ret, searched, stale >>
  /\ UNCHANGED gameVars

IgnoreClock(up) == FALSE

LoopBreak(up) == up

\* Lines 414-422 and 442-445: the loop test, the time check, the move.
ABLoop ==
  /\ rpc = "search"
  /\ Top.pc = "loop"
  /\ \E up \in isTimeUp :
       LET f == Top
           m == f.myMoves[f.idx]
       IN  /\ timeoutFlag' = up
           /\ IF LoopBreak(up)
              THEN stack' = Append(Callers, [f EXCEPT !.pc = "store"])
              ELSE IF validateMove(f.board, f.currTurn, m)
              THEN stack' = Callers \o
                     << [f EXCEPT !.pc = "wait"],
                        NewFrame(makeMove(f.board, f.currTurn, m), opponent(f.currTurn),
                                 f.depth - 1, f.alpha, f.beta, f.perspective) >>
              ELSE stack' = Append(Callers,
                     [f EXCEPT !.idx = @ + 1,
                               !.pc = IF f.idx + 1 > Len(f.myMoves) THEN "store" ELSE "loop"])
  /\ returns' = << >>
  /\ UNCHANGED << board, turn, transpositionTable, rpc, root, ret, searched, stale,
                  lateEvals >>
  /\ UNCHANGED gameVars

StoreAlways(up) == TRUE

StoreAllowed(up) == ~up

\* Lines 448-453: the table store and the return of the best value.
ABStore ==
  /\ rpc = "search"
  /\ Top.pc = "store"
  /\ \E up \in isTimeUp :
       LET f == Top
       IN  /\ timeoutFlag' = up
           /\ transpositionTable' =
                IF StoreAllowed(up)
                THEN Store(transpositionTable, f.hash,
                           TTEntry(f.hash, f.depth, f.bestVal, f.bestMove))
                ELSE transpositionTable
           /\ Return(f.bestVal, "best")
  /\ UNCHANGED << board, turn, ret, searched, stale, lateEvals >>
  /\ UNCHANGED gameVars

\* ------------------------------------------------------------------------
\* rootSearch and playMove
\* ------------------------------------------------------------------------

\* The locals of rootSearch.  scored counts the root moves the current
\* iteration has scored, iters the iterations started, completed is the
\* depth of the last iteration whose result was committed (0: none).
NoRoot ==
  [ moves |-> << >>, bestMove |-> << 0, 0 >>, depth |-> 0, maxDepth |-> 0,
    iterBest |-> << 0, 0 >>, iterScore |-> 0, idx |-> 0,
    scored |-> 0, iters |-> 0, completed |-> 0 ]

\* Lines 535-553.
TargetDepth(empty) ==
  Min(IF empty <= 12 THEN empty
      ELSE IF empty <= 20 THEN 10
      ELSE IF empty <= 40 THEN 8
      ELSE 6,
      MAX_DEPTH)

PassOnSingle(moves) == << 0, 0 >>

\* Lines 524-533, for a side with fewer than two legal moves.
QuickReturn(moves) == IF moves = << >> THEN << 0, 0 >> ELSE Head(moves)

\* Lines 558-564.
FinalMove(b, t, bestMove, moves) ==
  IF ~validateMove(b, t, bestMove) THEN Head(moves) ELSE bestMove

\* Lines 460-476: rootSearch up to the first time check; it returns at
\* once for fewer than two moves or a target depth below 2.
RootEntry(b, t, maxDepth) ==
  LET moves   == getValidMoves(b, t)
      ordered == orderMoves(moves, b, t)
  IN  IF moves = << >> THEN [returned |-> TRUE, move |-> << 0, 0 >>, root |-> NoRoot]
      ELSE IF Len(moves) = 1 THEN [returned |-> TRUE, move |-> Head(moves), root |-> NoRoot]
      ELSE [ returned |-> 2 > maxDepth,
             move     |-> Head(ordered),
             root     |-> [ NoRoot EXCEPT !.moves = ordered, !.bestMove = Head(ordered),
                                          !.depth = 2, !.maxDepth = maxDepth ] ]

KeepTable(table) == table

ClearTable(table) == EmptyTable

KeepFlag(flag) == flag

ResetFlag(flag) == FALSE

\* Lines 518-556: a call of playMove, up to its return or to the first
\* time check of rootSearch.
PlayMove(p) ==
  /\ rpc \in {"ready", "returned"}
  /\ LET b     == Positions[p].board
         t     == Positions[p].turn
         moves == getValidMoves(b, t)
         r     == RootEntry(b, t, TargetDepth(emptySquares(b)))
     IN  /\ board' = b
         /\ turn' = t
         /\ timeoutFlag' = ResetFlag(timeoutFlag)
         /\ transpositionTable' = ClearTable(transpositionTable)
         /\ stale' = [table |-> transpositionTable # EmptyTable, flag |-> timeoutFlag]
         /\ IF Len(moves) <= 1
            THEN /\ ret' = QuickReturn(moves)
                 /\ rpc' = "returned"
                 /\ root' = NoRoot
            ELSE IF r.returned
            THEN /\ ret' = FinalMove(b, t, r.move, moves)
                 /\ rpc' = "returned"
                 /\ root' = r.root
            ELSE /\ ret' = ret
                 /\ rpc' = "depth"
                 /\ root' = r.root
  /\ stack' = << >>
  /\ searched' = FALSE
  /\ returns' = << >>
  /\ lateEvals' = 0
  /\ UNCHANGED gameVars

\* rootSearch returns r.bestMove and playMove validates it.
Finish(r) ==
  /\ rpc' = "returned"
  /\ ret' = FinalMove(board, turn, r.bestMove, getValidMoves(board, turn))

\* Lines 476-480: the time check that opens an iteration.
DepthCheck ==
  /\ rpc = "depth"
  /\ \E up \in isTimeUp :
       /\ timeoutFlag' = up
       /\ IF up
          THEN /\ Finish(root)
               /\ root' = root
          ELSE /\ rpc' = "move"
               /\ ret' = ret
               /\ root' = [ root EXCEPT !.iterBest = root.bestMove, !.iterScore = -INF,
                                        !.idx = 1, !.scored = 0, !.iters = @ + 1 ]
  /\ returns' = << >>
  /\ UNCHANGED << board, turn, transpositionTable, stack, searched, stale, lateEvals >>
  /\ UNCHANGED gameVars

\* Lines 482-490 and 496-498: the time check before a root move, the move
\* and the call of alphaBeta.
MoveCheck ==
  /\ rpc = "move"
  /\ \E up \in isTimeUp :
       LET m == root.moves[root.idx]
       IN  /\ timeoutFlag' = up
           /\ IF up
              THEN /\ rpc' = "commit"
                   /\ UNCHANGED << root, stack, searched >>
              ELSE IF validateMove(board, turn, m)
              THEN /\ rpc' = "search"
                   /\ stack' = << NewFrame(makeMove(board, turn, m), opponent(turn),
                                           root.depth - 1, -INF, INF, turn) >>
                   /\ searched' = TRUE
                   /\ root' = root
              ELSE /\ root' = [root EXCEPT !.idx = @ + 1]
                   /\ rpc' = IF root.idx + 1 > Len(root.moves) THEN "commit" ELSE "move"
                   /\ UNCHANGED << stack, searched >>
  /\ returns' = << >>
  /\ UNCHANGED << board, turn, transpositionTable, ret, stale, lateEvals >>
  /\ UNCHANGED gameVars

CommitAlways(up) == TRUE

CommitAllowed(up) == ~up

\* Lines 501-509 and the loop step of line 476: the iteration's result is
\* committed or dropped, and the next depth is tested against the target.
CommitCheck ==
  /\ rpc = "commit"
  /\ \E up \in isTimeUp :
       LET kept == IF CommitAllowed(up)
                   THEN [ root EXCEPT !.bestMove = root.iterBest,
                                      !.moves = PushFront(root.moves, root.iterBest),
                                      !.completed = root.depth ]
                   ELSE root
           next == [kept EXCEPT !.depth = @ + 2]
       IN  /\ timeoutFlag' = up
           /\ root' = next
           /\ IF next.depth <= next.maxDepth
              THEN /\ rpc' = "depth"
                   /\ ret' = ret
              ELSE Finish(next)
  /\ returns' = << >>
  /\ UNCHANGED << board, turn, transpositionTable, stack, searched, stale, lateEvals >>
  /\ UNCHANGED gameVars

\* ------------------------------------------------------------------------
\* The engine under repeated calls
\* ------------------------------------------------------------------------

Init ==
  /\ board = Positions[1].board
  /\ turn = Positions[1].turn
  /\ transpositionTable = EmptyTable
  /\ timeoutFlag = FALSE
  /\ rpc = "ready"
  /\ root = NoRoot
  /\ stack = << >>
  /\ ret = << 0, 0 >>
  /\ searched = FALSE
  /\ stale = [table |-> FALSE, flag |-> FALSE]
  /\ returns = << >>
  /\ lateEvals = 0
  /\ gboard = StartBoard
  /\ gturn = "BLACK"
  /\ ggame = "A"
  /\ gply = 0
  /\ gleft = FALSE
  /\ gscore = [BLACK |-> 0, RED |-> 0]

\* ------------------------------------------------------------------------
\* The host's game: the positions evaluate is applied to
\* ------------------------------------------------------------------------

\* The side to move after t moved to b: the opponent, or t again when the
\* opponent has to pass.
NextTurn(b, t) == IF getValidMoves(b, opponent(t)) # << >> THEN opponent(t) ELSE t

Scores(b) == [BLACK |-> evaluate(b, "BLACK"), RED |-> evaluate(b, "RED")]

InitGame ==
  /\ board = Positions[1].board
  /\ turn = Positions[1].turn
  /\ transpositionTable = EmptyTable
  /\ timeoutFlag = FALSE
  /\ rpc = "ready"
  /\ root = NoRoot
  /\ stack = << >>
  /\ ret = << 0, 0 >>
  /\ searched = FALSE
  /\ stale = [table |-> FALSE, flag |-> FALSE]
  /\ returns = << >>
  /\ lateEvals = 0
  /\ gboard = StartBoard
  /\ gturn = "BLACK"
  /\ ggame \in { Games[g] : g \in 1..NumGames }
  /\ gply = 0
  /\ gleft = FALSE
  /\ gscore = Scores(StartBoard)

\* The next move of the record is played and the position evaluated.
RecordedMove ==
  /\ ~gleft
  /\ gply < Len(Record(ggame))
  /\ LET mv == Record(ggame)[gply + 1]
         m  == << mv[2], mv[3] >>
     IN  /\ mv[1] = gturn
         /\ validateMove(gboard, gturn, m)
         /\ gboard' = makeMove(gboard, gturn, m)
         /\ gturn' = NextTurn(gboard', gturn)
         /\ gscore' = Scores(gboard')
  /\ gply' = gply + 1
  /\ UNCHANGED << ggame, gleft >>
  /\ UNCHANGED engineVars

\* The host leaves the record by one legal move, and the position is
\* evaluated.
FreeMove ==
  /\ ~gleft
  /\ \E i \in 1..Len(getValidMoves(gboard, gturn)) :
       LET m == getValidMoves(gboard, gturn)[i]
       IN  /\ gboard' = makeMove(gboard, gturn, m)
           /\ gturn' = NextTurn(gboard', gturn)
           /\ gscore' = Scores(gboard')
  /\ gleft' = TRUE
  /\ UNCHANGED << ggame, gply >>
  /\ UNCHANGED engineVars

NextGame == RecordedMove \/ FreeMove

SpecGame == InitGame /\ [][NextGame]_vars

\* Every position the engine is called on is a position of its game, with
\* the side whose turn it is or a side that has to pass.
PositionsOnRecord ==
  \A i \in 1..Len(Positions) :
    (ggame = Positions[i].game /\ gply = Positions[i].ply /\ ~gleft)
      => /\ gboard = Positions[i].board
         /\ \/ gturn = Positions[i].turn
            \/ getValidMoves(gboard, Positions[i].turn) = << >>

Next ==
  \/ \E p \in 1..NumPositions : PlayMove(p)
  \/ DepthCheck
  \/ MoveCheck
  \/ CommitCheck
  \/ ABEntry
  \/ ABLoop
  \/ ABStore

Spec == Init /\ [][Next]_vars

\* ------------------------------------------------------------------------
\* Properties
\* ------------------------------------------------------------------------

Running == rpc \in {"depth", "move", "commit", "search"}

CallMoves == getValidMoves(board, turn)

\* The unpruned minimax value of depth d: maximising where the side to move
\* is the perspective, minimising elsewhere, a pass keeping the depth, the
\* leaves scored by evaluate.
RECURSIVE Minimax(_, _, _, _)
Minimax(b, t, d, p) ==
  LET myMoves  == getValidMoves(b, t)
      oppMoves == getValidMoves(b, opponent(t))
      vals     == { Minimax(makeMove(b, t, myMoves[i]), opponent(t), d - 1, p) :
                      i \in 1..Len(myMoves) }
  IN  IF d = 0 \/ (myMoves = << >> /\ oppMoves = << >>) THEN evaluate(b, p)
      ELSE IF myMoves = << >> THEN Minimax(b, opponent(t), d, p)
      ELSE IF t = p THEN CHOOSE v \in vals : \A w \in vals : v >= w
      ELSE CHOOSE v \in vals : \A w \in vals : v <= w

\* The value of root move m in an iteration of depth d.
RootValue(m, d) == Minimax(makeMove(board, turn, m), opponent(turn), d - 1, turn)

\* The root moves of the highest value at depth d.
BestMoves(d) ==
  { m \in { CallMoves[i] : i \in 1..Len(CallMoves) } :
      \A i \in 1..Len(CallMoves) : RootValue(m, d) >= RootValue(CallMoves[i], d) }

\* C1: whenever the side to move has a legal move, the move playMove
\* returned is legal for that side in the position of the call, at whatever
\* time check the budget expired and whatever the table held.
C1_ReturnsLegalMove ==
  (rpc = "returned" /\ CallMoves # << >>) => validateMove(board, turn, ret)

\* The budget expired inside the first iteration, after alphaBeta had been
\* called, and a legal move was returned.
C1_Witness ==
  /\ rpc = "returned"
  /\ timeoutFlag
  /\ searched
  /\ root.completed = 0
  /\ validateMove(board, turn, ret)

\* C2: with fewer than two legal moves playMove returns the pass sentinel
\* (no move) or the only move, alphaBeta was never called and the table is
\* empty at the return.
C2_NoSearchBelowTwoMoves ==
  (rpc = "returned" /\ Len(CallMoves) < 2) =>
    /\ ~searched
    /\ transpositionTable = EmptyTable
    /\ Len(CallMoves) = 0 => ret = << 0, 0 >>
    /\ Len(CallMoves) = 1 => ret = CallMoves[1]

\* A call with one legal move returned it, after a call that had left
\* entries in the table.
C2_Witness ==
  /\ rpc = "returned"
  /\ Len(CallMoves) = 1
  /\ ret = CallMoves[1]
  /\ stale.table
  /\ transpositionTable = EmptyTable

\* C3: a call of alphaBeta made with the window (-INF, +INF) that returns
\* while the budget has not expired returns the unpruned minimax value of
\* its position, side, depth and perspective.
C3_AlphaBetaIsMinimax ==
  \A i \in 1..Len(returns) :
    (~timeoutFlag /\ returns[i].window = << -INF, INF >>) =>
      returns[i].val = Minimax(returns[i].board, returns[i].currTurn,
                               returns[i].depth, returns[i].perspective)

\* A full-window call of depth 3 or more returned the value of a loop over
\* several children, with entries in the table.
C3_Witness ==
  /\ ~timeoutFlag
  /\ transpositionTable # EmptyTable
  /\ \E i \in 1..Len(returns) :
       /\ returns[i].window = << -INF, INF >>
       /\ returns[i].depth >= 3
       /\ returns[i].explored >= 2
       /\ returns[i].val = Minimax(returns[i].board, returns[i].currTurn,
                                   returns[i].depth, returns[i].perspective)

\* A step of rootSearch that changes the running best move or the depth
\* committed is the commit of an iteration that scored every root move,
\* found the budget unexpired, and whose best move has the highest minimax
\* value of its depth.
CommitStep ==
  (Running /\ (root'.bestMove # root.bestMove \/ root'.completed # root.completed)) =>
    /\ rpc = "commit"
    /\ ~timeoutFlag'
    /\ root.scored = Len(root.moves)
    /\ root'.bestMove = root.iterBest
    /\ root'.completed = root.depth
    /\ root.iterBest \in BestMoves(root.depth)

\* The move returned by a search is the running best move: a best move of
\* the deepest committed iteration, or the first ordered move if none was.
ReturnsCommitted ==
  (rpc = "returned" /\ Len(CallMoves) >= 2) =>
    /\ ret = root.bestMove
    /\ root.completed > 0 => ret \in BestMoves(root.completed)
    /\ root.completed = 0 => ret = Head(orderMoves(CallMoves, board, turn))

\* C4: the running best move is replaced only by the best move of an
\* iteration that scored every root move before the budget expired; an
\* interrupted iteration is dropped, and the move returned is the best
\* move of the deepest iteration committed.
C4_OnlyCompletedIterationsCommit == [][CommitStep]_vars /\ []ReturnsCommitted

\* The second iteration was interrupted with a best-so-far other than the
\* committed move of the first, and the first iteration's move was returned.
C4_Witness ==
  /\ rpc = "returned"
  /\ timeoutFlag
  /\ root.completed = 2
  /\ root.iters = 2
  /\ root.scored >= 1
  /\ root.iterBest # root.bestMove
  /\ ret = root.bestMove

\* The state in which rootSearch is about to make its first time check.
SearchStart == rpc = "depth" /\ root.iters = 0

\* C5: when a call starts its search the table is empty and the flag is
\* unset, whatever the previous call left behind.
C5_CallStartsClean ==
  SearchStart => (transpositionTable = EmptyTable /\ ~timeoutFlag)

\* A search starts clean after a call that left entries and a set flag.
C5_Witness ==
  /\ SearchStart
  /\ stale.table
  /\ stale.flag
  /\ transpositionTable = EmptyTable
  /\ ~timeoutFlag

\* C6: with at least two legal moves, at most 12 empty cells and a budget
\* that does not expire, the deepest iteration searched to a depth equal to
\* the number of empty cells.
C6_EndgameDepthIsEmptyCount ==
  (rpc = "returned" /\ ~timeoutFlag /\ Len(CallMoves) >= 2
     /\ emptySquares(board) <= 12) =>
    root.completed = emptySquares(board)

\* C7: evaluate for BLACK is the negation of evaluate for RED, and so is
\* each of its terms, in every position of the host's game.
C7_EvaluateAntisymmetric ==
  /\ gscore.BLACK = -gscore.RED
  /\ gscore.BLACK = evaluate(gboard, "BLACK")
  /\ Material(gboard, "BLACK") = -Material(gboard, "RED")
  /\ evaluatePositional(getValidMoves(gboard, "BLACK"), getValidMoves(gboard, "RED"))
       = -evaluatePositional(getValidMoves(gboard, "RED"), getValidMoves(gboard, "BLACK"))
  /\ evaluateCorners(gboard, "BLACK") = -evaluateCorners(gboard, "RED")
  /\ evaluateStability(gboard, "BLACK") = -evaluateStability(gboard, "RED")

\* A midgame position whose weighted sum is negative for one side, with a
\* fraction for the conversion to drop, and a corner term that is not zero.
C7_Witness ==
  /\ emptySquares(gboard) > 20
  /\ emptySquares(gboard) <= 48
  /\ WeightedSum(gboard, "BLACK") % 100 # 0
  /\ evaluateCorners(gboard, "BLACK") # 0
  /\ gscore.BLACK # 0
  /\ gscore.BLACK = -gscore.RED

\* Once the flag is set during a call: it stays set, no frame is pushed
\* and no node expanded, the table and the committed result are unchanged,
\* no further static evaluation is made, and the innermost frame returns or
\* leaves its loop.
AfterTimeout ==
  (timeoutFlag /\ Running) =>
    /\ timeoutFlag'
    /\ Len(stack') <= Len(stack)
    /\ \A i \in 1..Len(stack') : stack'[i].pc # "entry"
    /\ transpositionTable' = transpositionTable
    /\ root'.bestMove = root.bestMove
    /\ root'.completed = root.completed
    /\ lateEvals' = lateEvals
    /\ rpc = "search" =>
         \/ Len(stack') < Len(stack)
         \/ (Top.pc = "loop" /\ stack'[Len(stack')].pc = "store")

\* C8: within a call the flag is monotone, and once it is set no alphaBeta
\* call is started, no move applied, no entry stored and no result
\* committed; the frames on the stack return after at most one static
\* evaluation.
C8_TimeoutShortCircuits ==
  [][AfterTimeout]_vars /\ [](lateEvals <= 1) /\
  []((timeoutFlag /\ rpc = "search") => \A i \in 1..Len(stack) : stack[i].pc # "entry")

\* The flag was set at the entry of a call three frames deep, which
\* returned its static evaluation.
C8_Witness ==
  /\ timeoutFlag
  /\ rpc = "search"
  /\ Len(stack) >= 3
  /\ lateEvals = 1

\* C9: when the budget has expired, the value an alphaBeta call returns is
\* the static evaluation of its position or the best value of the children
\* it explored, never the -INF / +INF initial value.
C9_TimeoutReturnsKnownValue ==
  \A i \in 1..Len(returns) :
    timeoutFlag =>
      /\ returns[i].val # INF
      /\ returns[i].val # -INF
      /\ \/ returns[i].val = evaluate(returns[i].board, returns[i].perspective)
         \/ returns[i].explored > 0

\* Every call on the stack was made one ply shallower than its caller, or
\* at the caller's depth by a caller that passed to a side with a legal
\* move and was not itself called by a pass; the iterations started are at
\* most half the target depth, which is at most MAX_DEPTH.
BoundedRecursion ==
  /\ \A i \in 1..Len(stack) : stack[i].depth >= 0
  /\ \A i \in 1..(Len(stack) - 1) :
       \/ stack[i].pc = "wait" /\ stack[i + 1].depth = stack[i].depth - 1
       \/ /\ stack[i].pc = "pass"
          /\ stack[i + 1].depth = stack[i].depth
          /\ stack[i + 1].currTurn = opponent(stack[i].currTurn)
          /\ getValidMoves(stack[i + 1].board, stack[i + 1].currTurn) # << >>
          /\ i > 1 => stack[i - 1].pc # "pass"
  /\ Running => Len(stack) <= 2 * root.depth
  /\ root.iters <= root.maxDepth \div 2
  /\ root.maxDepth <= MAX_DEPTH
  /\ \A e \in 0..64 : TargetDepth(e) <= MAX_DEPTH

\* The work left, as a sequence compared position by position: for
\* rootSearch the depths left, the phase of the iteration and the root
\* moves left; for each frame the moves left and the phase of the frame.
RootRank ==
  << root.maxDepth + 2 - root.depth,
     IF rpc = "depth" THEN 2 ELSE IF rpc = "commit" THEN 0 ELSE 1,
     IF rpc \in {"move", "search"} THEN Len(root.moves) + 1 - root.idx ELSE 0,
     IF rpc = "move" THEN 1 ELSE 0 >>

FrameRank(f) ==
  IF f.pc = "entry" THEN << 65, 3 >>
  ELSE IF f.pc = "pass" THEN << 0, 0 >>
  ELSE << Len(f.myMoves) + 1 - f.idx,
          IF f.pc = "loop" THEN 2 ELSE IF f.pc = "wait" THEN 1 ELSE 0 >>

RECURSIVE FrameRanks(_)
FrameRanks(st) ==
  IF st = << >> THEN << >> ELSE FrameRank(Head(st)) \o FrameRanks(Tail(st))

LexLess(a, b) ==
  \E k \in 1..Min(Len(a), Len(b)) :
    /\ a[k] < b[k]
    /\ \A j \in 1..(k - 1) : a[j] = b[j]

\* A step of a call that does not return leaves less work.
Progress ==
  (Running /\ rpc' # "returned") =>
    /\ \A k \in 1..Len(RootRank) : RootRank[k] >= 0
    /\ LexLess(RootRank' \o FrameRanks(stack'), RootRank \o FrameRanks(stack))

\* A call that has not returned has a next step: a time check of
\* rootSearch, or the entry, loop test or store of the innermost frame.
CanStep ==
  Running =>
    IF rpc = "search"
    THEN /\ stack # << >>
         /\ Top.pc \in {"entry", "loop", "store"}
         /\ Top.pc = "loop" => Top.idx <= Len(Top.myMoves)
    ELSE /\ stack = << >>
         /\ rpc = "move" => root.idx <= Len(root.moves)

\* C10: every playMove call returns, whether or not the budget expires:
\* the recursion is bounded as above, the iterations are bounded, and every
\* step of a call that has not returned can be taken and leaves less work.
C10_PlayMoveTerminates == []BoundedRecursion /\ [][Progress]_vars /\ []CanStep

\* A frame that passed the turn is on the stack, under a call of depth 2
\* or more, with the budget unexpired.
C10_Witness ==
  /\ ~timeoutFlag
  /\ \E i \in 1..(Len(stack) - 1) :
       /\ stack[i].pc = "pass"
       /\ stack[i].depth >= 2
       /\ stack[i + 1].depth = stack[i].depth

\* Every entry is kept under its own hash, was stored by a call of depth 1
\* or more, and holds a value evaluate produced and a square of the board;
\* a call that searched returns a legal move.
EntriesWellFormed ==
  /\ \A h \in DOMAIN transpositionTable :
       LET e == transpositionTable[h]
       IN  /\ e.hash = h
           /\ e.depth >= 1
           /\ -INF < e.score /\ e.score < INF
           /\ OnBoard(e.bestMove[1], e.bestMove[2])
  /\ (rpc = "returned" /\ searched) => validateMove(board, turn, ret)

\* The step of a call that stores: the entry goes under the hash of the
\* call's position and holds a move of the list the loop came to and
\* applied; no other entry changes.
StoreStep ==
  (rpc = "search" /\ Top.pc = "store"
     /\ (transpositionTable' # transpositionTable \/ ~timeoutFlag')) =>
    LET f == Top
    IN  /\ f.hash = hash(f.board)
        /\ f.hash \in DOMAIN transpositionTable'
        /\ transpositionTable'[f.hash] = TTEntry(f.hash, f.depth, f.bestVal, f.bestMove)
        /\ validateMove(f.board, f.currTurn, f.bestMove)
        /\ \E k \in 1..Len(f.myMoves) : k <= f.idx /\ f.myMoves[k] = f.bestMove
        /\ f.explored >= 1
        /\ \A h \in DOMAIN transpositionTable' \ {f.hash} :
             h \in DOMAIN transpositionTable
               /\ transpositionTable'[h] = transpositionTable[h]

\* The step of a loop that comes to a move it cannot apply: no call is
\* made and the best value and move stay as they were.
SkipStep ==
  (rpc = "search" /\ Top.pc = "loop" /\ ~timeoutFlag'
     /\ ~validateMove(Top.board, Top.currTurn, Top.myMoves[Top.idx])) =>
    /\ Len(stack') = Len(stack)
    /\ stack'[Len(stack')].bestVal = Top.bestVal
    /\ stack'[Len(stack')].bestMove = Top.bestMove
    /\ stack'[Len(stack')].explored = Top.explored
    /\ transpositionTable' = transpositionTable

\* C11: in every reachable state each table entry is stored under a key
\* equal to its hash field, has depth >= 1, a score strictly between -INF
\* and +INF and a best move that was applied, hence legal for the side to
\* move, at the position that stored it; a cached move that a collision
\* put in the list and that is illegal there is skipped, never stored as
\* the best move and never returned.
C11_TableEntriesSound ==
  []EntriesWellFormed /\ [][StoreStep]_vars /\ [][SkipStep]_vars

\* A call whose loop skipped an illegal cached move has just stored its
\* entry and returned, with the budget unexpired.
C11_Witness ==
  /\ ~timeoutFlag
  /\ \E i \in 1..Len(returns) :
       /\ returns[i].how = "best"
       /\ returns[i].skipped >= 1
       /\ hash(returns[i].board) \in DOMAIN transpositionTable
       /\ transpositionTable[hash(returns[i].board)].depth = returns[i].depth
       /\ transpositionTable[hash(returns[i].board)].score = returns[i].val

====
